---- MODULE Spec2Model ----
(***************************************************************************)
(* DataStudio file I/O: the extension -> strategy registry (FileIO in      *)
(* datastudio/core/file.py, FileIOFactory in datastudio/base/file.py), the *)
(* strategies FileIOCSV, FileIOCSVgz, FileIOTXT and FileIONumpy, and the   *)
(* file system they act on.                                                *)
(*                                                                         *)
(* A path is a record [dir, stem, exts]: "d/e/a.csv.gz" is                 *)
(* [dir |-> <<"d","e">>, stem |-> "a", exts |-> <<".csv",".gz">>].  A path *)
(* with dir = <<>> has no directory part (os.path.dirname gives '').       *)
(* Python values are records with a type field; None is [type |-> "None"]. *)
(***************************************************************************)
EXTENDS Integers, Sequences, FiniteSets, TLC

VARIABLES
    dirs,           \* the directories that exist on disk (each a sequence of names)
    files,          \* the files on disk: a function from path to file content
    FILE_HANDLERS,  \* per draft, the class attribute _FILE_HANDLERS: extension -> strategy instance
    call,           \* the most recent call: what was asked and what came back
    ncalls,         \* the number of calls made so far
    records,        \* the metadata record objects a caller holds, by reference
    composite,      \* the one Metadata object: its dict _metadata, key -> record reference
    mcall,          \* the most recent call on the metadata classes
    fobj,           \* the File object a caller holds: its attributes
    fcall,          \* the most recent call on the File
    entity,         \* a data store or data source object: its attributes
    coll,           \* a DataCollection's dict _collection: key -> member
    dcall,          \* the most recent call on the entity or the collection
    factory,        \* a metadata factory object: its attributes
    heap,           \* the Metadata objects made by factories, by reference
    handed          \* the references the metadata property has returned, in order

vars == <<dirs, files, FILE_HANDLERS, call, ncalls, records, composite, mcall,
          fobj, fcall, entity, coll, dcall, factory, heap, handed>>

\* ------------------------------------------------------------------ bounds
MaxCalls == 2      \* calls made on the dispatchers and strategies in one run
MaxMetaCalls == 4  \* calls made on the metadata classes in one run
MaxFileCalls == 4  \* calls made on a File in one run, its construction included
MaxDataCalls == 3  \* calls made on an entity and a collection in one run
MaxTxtCalls == 3   \* calls made on the text strategy in one run

\* ------------------------------------------------------------ python values
NoneV == [type |-> "None"]
PathV(p) == [type |-> "path", path |-> p]
TableV(cols, nrows) == [type |-> "table", cols |-> cols, nrows |-> nrows]
StrV(text) == [type |-> "str", text |-> text]
ListV(items) == [type |-> "list", items |-> items]
ArrayV(n) == [type |-> "array", n |-> n]
\* exceptions a library call ends with
IOErrorV == [type |-> "IOError"]
ExceptionV == [type |-> "Exception"]

Range(s) == {s[i] : i \in DOMAIN s}
Last(s) == s[Len(s)]
Front(s) == SubSeq(s, 1, Len(s) - 1)

RECURSIVE Concat(_)
Concat(ss) == IF ss = <<>> THEN <<>> ELSE Head(ss) \o Concat(Tail(ss))

\* ------------------------------------------------------------------ os.path
splitext(path) ==
    IF path.exts = <<>> THEN <<path, "">>
    ELSE <<[path EXCEPT !.exts = Front(@)], Last(path.exts)>>

dirname(path) == path.dir

\* path + ext (string concatenation of a suffix)
PathPlus(path, ext) == [path EXCEPT !.exts = Append(@, ext)]

\* os.path.exists(directory): '' never exists
exists(ds, directory) == directory # <<>> /\ directory \in ds

\* os.mkdir(directory) succeeds only when the parent exists and the directory does not;
\* the parent of a one-level relative directory is the working directory
mkdirOk(ds, directory) ==
    /\ directory # <<>>
    /\ directory \notin ds
    /\ (Len(directory) = 1 \/ Front(directory) \in ds)

\* ------------------------------------------------- strategy helper methods
\* _check_dir: create the file's directory when it does not exist.  os.mkdir
\* raises (FileNotFoundError) outside any try block when it cannot create it.
check_dir(ds, path) ==
    LET directory == dirname(path) IN
    IF exists(ds, directory)
    THEN [raised |-> FALSE, dirs |-> ds, diag |-> <<>>]
    ELSE IF mkdirOk(ds, directory)
         THEN [raised |-> FALSE, dirs |-> ds \cup {directory}, diag |-> <<"dir_created">>]
         ELSE [raised |-> TRUE, dirs |-> ds, diag |-> <<>>]

\* variant of _check_file_ext that leaves every path as it is
check_file_ext_keep(path, ext) == [path |-> path, diag |-> <<>>]

\* _check_file_ext: append ext unless the path's final suffix is exactly ext
check_file_ext(path, ext) ==
    IF ~(splitext(path)[2] = ext)
    THEN [path |-> PathPlus(path, ext), diag |-> <<"ext_substituted">>]
    ELSE [path |-> path, diag |-> <<>>]

\* the file system with content stored at path
Store(fs, path, content) ==
    [q \in DOMAIN fs \cup {path} |-> IF q = path THEN content ELSE fs[q]]

\* what a call hands back: returned/raised, the value, the file system after it, the diagnostics
Returned(result, ds, fs, diag) ==
    [outcome |-> "returned", result |-> result, dirs |-> ds, files |-> fs, diag |-> diag]
Raised(ds, fs, diag) ==
    [outcome |-> "raised", result |-> NoneV, dirs |-> ds, files |-> fs, diag |-> diag]

\* ------------------------------------------------------------ pandas csv
\* DataFrame.to_csv: the header line and the row count of the text written;
\* with index=True the unnamed index is a first column with an empty label
to_csv(content, index, gz) ==
    [kind |-> "csv", gz |-> gz,
     header |-> IF index THEN <<"">> \o content.cols ELSE content.cols,
     nrows |-> content.nrows]

\* pd.read_csv names a column with an empty header "Unnamed: <position>"
Unnamed(i) == IF i = 0 THEN "Unnamed: 0" ELSE "Unnamed: n"
read_header(header) ==
    [i \in DOMAIN header |-> IF header[i] = "" THEN Unnamed(i - 1) ELSE header[i]]

\* variant of read_csv that is not handed usecols
read_csv_allcols(fs, path, filter, gz) ==
    IF path \notin DOMAIN fs THEN IOErrorV
    ELSE IF fs[path].kind # "csv" \/ fs[path].gz # gz THEN ExceptionV
    ELSE TableV(read_header(fs[path].header), fs[path].nrows)

\* pd.read_csv(path, usecols=filter, compression=...): the table, or IOError
\* when no file is at path, or Exception (undecodable content, usecols that
\* do not match the columns, usecols that is not list-like)
read_csv(fs, path, filter, gz) ==
    IF path \notin DOMAIN fs THEN IOErrorV
    ELSE LET f == fs[path] IN
         IF f.kind # "csv" \/ f.gz # gz THEN ExceptionV
         ELSE LET cols == read_header(f.header) IN
              IF filter.type = "None" THEN TableV(cols, f.nrows)
              ELSE IF filter.type = "cols" /\ filter.cols \subseteq Range(cols)
                   THEN TableV(SelectSeq(cols, LAMBDA c : c \in filter.cols), f.nrows)
                   ELSE ExceptionV

\* variant of the try/except that lets IOError through to the caller
ReadGuarded_propagates(r, ds, fs) ==
    IF r.type = "IOError" THEN Raised(ds, fs, <<>>)
    ELSE IF r.type = "Exception" THEN Returned(NoneV, ds, fs, <<"exception">>)
    ELSE Returned(r, ds, fs, <<>>)

\* the try/except of every strategy read: IOError and Exception are both
\* reported and turned into None
ReadGuarded(r, ds, fs) ==
    IF r.type = "IOError" THEN Returned(NoneV, ds, fs, <<"not_exist">>)
    ELSE IF r.type = "Exception" THEN Returned(NoneV, ds, fs, <<"exception">>)
    ELSE Returned(r, ds, fs, <<>>)

\* --------------------------------------------------- FileIOCSV, FileIOCSVgz
\* index: base/file.py calls to_csv(path) (index written), core/file.py
\* calls to_csv(path, index=False)
WritesIndex(draft) == draft = "base"

CSV_read(ds, fs, path, filter, gz) == ReadGuarded(read_csv(fs, path, filter, gz), ds, fs)

CSV_write(draft, ds, fs, path, content, ext, gz) ==
    LET cd == check_dir(ds, path) IN
    IF cd.raised THEN Raised(ds, fs, <<>>)
    ELSE LET ce == check_file_ext(path, ext) IN
         IF content.type = "table"
         THEN Returned(PathV(ce.path), cd.dirs,
                       Store(fs, ce.path, to_csv(content, WritesIndex(draft), gz)),
                       cd.diag \o ce.diag)
         ELSE \* content.to_csv: AttributeError, caught
              Returned(NoneV, cd.dirs, fs, cd.diag \o ce.diag \o <<"exception">>)

FileIOCSV_read(ds, fs, path, filter) == CSV_read(ds, fs, path, filter, FALSE)
FileIOCSV_write(draft, ds, fs, path, content) ==
    CSV_write(draft, ds, fs, path, content, ".csv", FALSE)

FileIOCSVgz_read(ds, fs, path, filter) == CSV_read(ds, fs, path, filter, TRUE)
FileIOCSVgz_write(draft, ds, fs, path, content) ==
    CSV_write(draft, ds, fs, path, content, ".gz", TRUE)

\* ---------------------------------------------------------------- FileIOTXT
\* a text stream that hands the stored characters on as they are
universal_newlines_keep(text) == text

\* open(path, 'r'): text mode with newline=None, in which '\r\n' and a lone
\* '\r' of the stored text are each handed to the reader as '\n'
RECURSIVE universal_newlines(_)
universal_newlines(text) ==
    IF text = <<>> THEN <<>>
    ELSE IF Head(text) = "\r"
         THEN IF Len(text) >= 2 /\ text[2] = "\n"
              THEN <<"\n">> \o universal_newlines(Tail(Tail(text)))
              ELSE <<"\n">> \o universal_newlines(Tail(text))
         ELSE <<Head(text)>> \o universal_newlines(Tail(text))

\* open(path, 'r').read(filter): the whole text, or its first n characters
txt_read(fs, path, filter) ==
    IF path \notin DOMAIN fs THEN IOErrorV
    ELSE LET f == fs[path] IN
         IF f.kind # "txt" THEN ExceptionV
         ELSE LET text == universal_newlines(f.text) IN
              IF filter.type = "None" THEN StrV(text)
              ELSE IF filter.type = "int"
                   THEN StrV(SubSeq(text, 1, IF filter.n < Len(text) THEN filter.n ELSE Len(text)))
                   ELSE ExceptionV    \* f.read(list): TypeError

FileIOTXT_read(ds, fs, path, filter) == ReadGuarded(txt_read(fs, path, filter), ds, fs)

\* open(path, 'w') truncates or creates the file before anything is written
\* (on a POSIX system the characters are stored as they are given);
\* a str is written whole, anything else is iterated and each item handed to
\* writelines: a list of strings and a table (whose iteration yields its
\* column labels) are written item after item, an array's first item is a
\* number and raises TypeError, which is caught
FileIOTXT_write(draft, ds, fs, path, content) ==
    LET cd == check_dir(ds, path) IN
    IF cd.raised THEN Raised(ds, fs, <<>>)
    ELSE LET ce == check_file_ext(path, ".txt")
             diag == cd.diag \o ce.diag
             Txt(text) == [kind |-> "txt", text |-> text] IN
         IF content.type = "str"
         THEN Returned(PathV(ce.path), cd.dirs, Store(fs, ce.path, Txt(content.text)), diag)
         ELSE IF content.type = "list"
         THEN Returned(PathV(ce.path), cd.dirs,
                       Store(fs, ce.path, Txt(Concat(content.items))), diag)
         ELSE IF content.type = "table"
         THEN Returned(PathV(ce.path), cd.dirs, Store(fs, ce.path, Txt(content.cols)), diag)
         ELSE Returned(NoneV, cd.dirs, Store(fs, ce.path, Txt(<<>>)), diag \o <<"exception">>)

\* -------------------------------------------------------------- FileIONumpy
FileIONumpy_read(ds, fs, path, filter) ==
    ReadGuarded(IF path \notin DOMAIN fs THEN IOErrorV
                ELSE IF fs[path].kind # "npy" THEN ExceptionV
                ELSE ArrayV(fs[path].n), ds, fs)

FileIONumpy_write(draft, ds, fs, path, content) ==
    LET cd == check_dir(ds, path) IN
    IF cd.raised THEN Raised(ds, fs, <<>>)
    ELSE LET ce == check_file_ext(path, ".npy") IN
         Returned(PathV(ce.path), cd.dirs,
                  Store(fs, ce.path, [kind |-> "npy", n |-> content.n]), cd.diag \o ce.diag)

\* ------------------------------------------------------ strategy instances
\* one instance per class per draft, made when the class body of the
\* dispatcher is executed
CoreHandlers == (".gz" :> "core.FileIOCSVgz") @@ (".csv" :> "core.FileIOCSV")
BaseHandlers == (".gz" :> "base.FileIOCSVgz") @@ (".csv" :> "base.FileIOCSV")
                @@ (".npy" :> "base.FileIONumpy")
Handlers0 == [core |-> CoreHandlers, base |-> BaseHandlers]

Drafts == {"core", "base"}

\* the strategy instances (core: FileIOCSV, FileIOCSVgz, FileIOTXT; base:
\* FileIOCSV, FileIOCSVgz, FileIONumpy)
Strategies == {"core.FileIOCSV", "core.FileIOCSVgz", "core.FileIOTXT",
               "base.FileIOCSV", "base.FileIOCSVgz", "base.FileIONumpy"}

\* the strategies called directly, without a dispatcher: those of core/file.py
DirectStrategies == {"core.FileIOCSV", "core.FileIOCSVgz", "core.FileIOTXT"}

DraftOf(s) == IF s \in {"core.FileIOCSV", "core.FileIOCSVgz", "core.FileIOTXT"}
              THEN "core" ELSE "base"

\* the extension a strategy's write enforces
CanonExt(s) ==
    CASE s \in {"core.FileIOCSV", "base.FileIOCSV"} -> ".csv"
      [] s \in {"core.FileIOCSVgz", "base.FileIOCSVgz"} -> ".gz"
      [] s = "core.FileIOTXT" -> ".txt"
      [] OTHER -> ".npy"

StrategyRead(s, ds, fs, path, filter) ==
    CASE s \in {"core.FileIOCSV", "base.FileIOCSV", "io2.FileIOCSV"} -> FileIOCSV_read(ds, fs, path, filter)
      [] s \in {"core.FileIOCSVgz", "base.FileIOCSVgz"} -> FileIOCSVgz_read(ds, fs, path, filter)
      [] s = "core.FileIOTXT" -> FileIOTXT_read(ds, fs, path, filter)
      [] OTHER -> FileIONumpy_read(ds, fs, path, filter)

StrategyWrite(s, ds, fs, path, content) ==
    CASE s \in {"core.FileIOCSV", "base.FileIOCSV", "io2.FileIOCSV"} ->
            FileIOCSV_write(DraftOf(s), ds, fs, path, content)
      [] s \in {"core.FileIOCSVgz", "base.FileIOCSVgz"} ->
            FileIOCSVgz_write(DraftOf(s), ds, fs, path, content)
      [] s = "core.FileIOTXT" -> FileIOTXT_write(DraftOf(s), ds, fs, path, content)
      [] OTHER -> FileIONumpy_write(DraftOf(s), ds, fs, path, content)

\* ------------------------------------------------- FileIO / FileIOFactory
\* str.lower on the suffixes that occur
lower(ext) == IF ext = ".CSV" THEN ".csv" ELSE ext

\* variant of _get_file_handler that falls back to the CSV strategy
get_file_handler_fallback(draft, io, path) ==
    LET file_ext == splitext(path)[2] IN
    IF file_ext \in DOMAIN FILE_HANDLERS[draft]
    THEN FILE_HANDLERS[draft][file_ext]
    ELSE FILE_HANDLERS[draft][".csv"]

\* variant of _get_file_handler that lower-cases the suffix before the lookup
get_file_handler_lower(draft, io, path) ==
    LET file_ext == lower(splitext(path)[2]) IN
    IF file_ext \in DOMAIN FILE_HANDLERS[draft]
    THEN FILE_HANDLERS[draft][file_ext]
    ELSE "raise"

\* variant of _get_file_handler with a registry per dispatcher object: the
\* second object holds strategy instances of its own
get_file_handler_perobject(draft, io, path) ==
    LET file_ext == splitext(path)[2] IN
    IF file_ext \in DOMAIN FILE_HANDLERS[draft]
    THEN IF io = "io1" THEN FILE_HANDLERS[draft][file_ext] ELSE "io2.FileIOCSV"
    ELSE "raise"

\* _get_file_handler: the registry entry of the path's final suffix, looked
\* up through the dispatcher object io (self._FILE_HANDLERS is the class
\* attribute, whichever object asks); "raise" when there is none
get_file_handler(draft, io, path) ==
    LET file_ext == splitext(path)[2] IN
    IF file_ext \in DOMAIN FILE_HANDLERS[draft]
    THEN FILE_HANDLERS[draft][file_ext]
    ELSE "raise"

FileIO_read(draft, io, ds, fs, path, filter) ==
    LET file_handler == get_file_handler(draft, io, path) IN
    IF file_handler = "raise"
    THEN [strategy |-> "none"] @@ Raised(ds, fs, <<>>)
    ELSE [strategy |-> file_handler] @@ StrategyRead(file_handler, ds, fs, path, filter)

FileIO_write(draft, io, ds, fs, path, content) ==
    LET file_handler == get_file_handler(draft, io, path) IN
    IF file_handler = "raise"
    THEN [strategy |-> "none"] @@ Raised(ds, fs, <<>>)
    ELSE [strategy |-> file_handler] @@ StrategyWrite(file_handler, ds, fs, path, content)

\* ============================================== metadata (core/metadata.py)
\* A str that is searched or case-folded is a sequence of characters.
Administrative == <<"A", "d", "m", "i", "n", "i", "s", "t", "r", "a", "t", "i", "v", "e">>
Descriptive == <<"D", "e", "s", "c", "r", "i", "p", "t", "i", "v", "e">>
Technical == <<"T", "e", "c", "h", "n", "i", "c", "a", "l">>
Process == <<"P", "r", "o", "c", "e", "s", "s">>

\* str.lower(), on the upper-case letters that occur
lower_char(c) ==
    CASE c = "A" -> "a" [] c = "D" -> "d" [] c = "T" -> "t" [] c = "P" -> "p"
      [] c = "R" -> "r" [] c = "O" -> "o" [] c = "C" -> "c" [] OTHER -> c
str_lower(s) == [i \in DOMAIN s |-> lower_char(s[i])]

\* the operator `in` on two strs: s occurs in k as a contiguous run
str_in(s, k) ==
    \E i \in 0..(Len(k) - Len(s)) : SubSeq(k, i + 1, i + Len(s)) = s

IntV(n) == [type |-> "int", n |-> n]

\* A record object: its class, the instance attributes its constructors
\* assigned, the attribute metadata_type, and the dict _metadata (md).
NoRecord == [class |-> "none", attrs |-> {}, metadata_type |-> <<>>, md |-> <<>>]

\* the outcome of a method call: what it returned or raised, what it printed,
\* and the object as the call left it
Ret(result, rec) ==
    [outcome |-> "returned", error |-> "none", result |-> result, printed |-> FALSE, rec |-> rec]
Exc(error, rec) ==
    [outcome |-> "raised", error |-> error, result |-> NoneV, printed |-> FALSE, rec |-> rec]

\* AbstractMetadata.__init__(self, entity, name, **kwargs) called with nargs
\* positional arguments after self: it takes two
AbstractMetadata_init(cls, name, nargs) ==
    IF nargs # 2 THEN Exc("TypeError", NoRecord)
    ELSE Ret(NoneV, [class |-> cls, attrs |-> {"_entity", "_metadata"},
                     metadata_type |-> <<>>,
                     md |-> ("name" :> StrV(name)) @@ ("updates" :> IntV(0))])

\* self.metadata_type = t
SetType(rec, t) ==
    [rec EXCEPT !.attrs = @ \cup {"metadata_type"}, !.metadata_type = t]

\* self._metadata[key] = value
SetItem(rec, key, value) ==
    [rec EXCEPT !.md = (key :> value) @@ @]

\* MetadataAdmin.__init__: hands kwargs to the base constructor as a third
\* positional argument
MetadataAdmin_init(name) ==
    LET b == AbstractMetadata_init("MetadataAdmin", name, 3) IN
    IF b.outcome = "raised" THEN b
    ELSE Ret(NoneV,
             SetItem(SetItem(SetItem(SetItem(SetItem(SetItem(SetItem(SetItem(
                 SetType(b.rec, Administrative),
                 "id", StrV("uuid4")), "name", StrV(name)), "creator", StrV("user")),
                 "created", StrV("t0")), "modifier", StrV("user")),
                 "modified", StrV("t0")), "classname", StrV("class")),
                 "objectname", StrV("objectname")))

\* MetadataDesc.__init__: the same third positional argument
MetadataDesc_init(name) ==
    LET b == AbstractMetadata_init("MetadataDesc", name, 3) IN
    IF b.outcome = "raised" THEN b
    ELSE Ret(NoneV,
             SetItem(SetItem(SetItem(SetType(b.rec, Descriptive),
                 "description", StrV("")), "class", StrV("class")),
                 "version", StrV("0.1.0")))

\* MetadataTech._format_metadata: its first statement reads uname.tech, and
\* the result of platform.uname() has no field tech
format_metadata(rec) == Exc("AttributeError", rec)

\* MetadataTech.__init__
MetadataTech_init(name) ==
    LET b == AbstractMetadata_init("MetadataTech", name, 2) IN
    IF b.outcome = "raised" THEN b
    ELSE LET f == format_metadata(SetType(b.rec, Technical)) IN
         IF f.outcome = "raised" THEN Exc(f.error, NoRecord) ELSE f

\* MetadataProcess.__init__
MetadataProcess_init(name) ==
    LET b == AbstractMetadata_init("MetadataProcess", name, 2) IN
    IF b.outcome = "raised" THEN b
    ELSE Ret(NoneV, SetItem(SetType(b.rec, Process), "log", ListV(<<"instantiated">>)))

\* cls(entity, name): the constructor of each record class
Construct(cls, name) ==
    CASE cls = "AbstractMetadata" -> AbstractMetadata_init(cls, name, 2)
      [] cls = "MetadataAdmin" -> MetadataAdmin_init(name)
      [] cls = "MetadataDesc" -> MetadataDesc_init(name)
      [] cls = "MetadataTech" -> MetadataTech_init(name)
      [] cls = "MetadataProcess" -> MetadataProcess_init(name)

\* AbstractMetadata.update: self._metadata['updates'] += 1
AbstractMetadata_update(rec) ==
    IF "updates" \notin DOMAIN rec.md THEN Exc("KeyError", rec)
    ELSE IF rec.md["updates"].type # "int" THEN Exc("TypeError", rec)
    ELSE Ret(NoneV, SetItem(rec, "updates", IntV(rec.md["updates"].n + 1)))

\* MetadataAdmin.update
MetadataAdmin_update(rec) ==
    LET b == AbstractMetadata_update(rec) IN
    IF b.outcome = "raised" THEN b
    ELSE Ret(NoneV, SetItem(SetItem(b.rec, "modifier", StrV("user")), "modified", StrV("t1")))

\* MetadataProcess.update: the message is built from self._name and event
\* before event is tested, and the base update is not called
MetadataProcess_update(rec, event) ==
    IF "_name" \notin rec.attrs THEN Exc("AttributeError", rec)
    ELSE IF event.type # "str" THEN Exc("TypeError", rec)
    ELSE IF event.text = "" THEN Ret(NoneV, rec)
    ELSE IF "log" \notin DOMAIN rec.md THEN Exc("KeyError", rec)
    ELSE IF rec.md["log"].type # "list" THEN Exc("AttributeError", rec)
    ELSE Ret(NoneV, SetItem(rec, "log", ListV(Append(rec.md["log"].items, "event"))))

\* record.update(event): MetadataProcess and MetadataAdmin override update;
\* MetadataDesc and MetadataTech inherit AbstractMetadata.update
\* (MetadataTech names its own method update_metadata)
update(rec, event) ==
    CASE rec.class = "MetadataProcess" -> MetadataProcess_update(rec, event)
      [] rec.class = "MetadataAdmin" -> MetadataAdmin_update(rec)
      [] OTHER -> AbstractMetadata_update(rec)

\* a key argument that is None (or any falsy key)
NoKey == ""

\* AbstractMetadata.get
get(rec, key) ==
    IF key # NoKey
    THEN IF key \in DOMAIN rec.md THEN Ret(rec.md[key], rec) ELSE Exc("KeyError", rec)
    ELSE Ret([type |-> "dict", md |-> rec.md], rec)

\* add as an upsert: stores the value whether or not the key is there
add_upsert(rec, key, value) == Ret(NoneV, SetItem(rec, key, value))

\* AbstractMetadata.add
add(rec, key, value) ==
    IF key \notin DOMAIN rec.md THEN Ret(NoneV, SetItem(rec, key, value))
    ELSE Exc("ValueError", rec)

\* change as an upsert: creates the entry when the key is absent
change_upsert(rec, key, value) == Ret(NoneV, SetItem(rec, key, value))

\* AbstractMetadata.change
change(rec, key, value) ==
    IF key \notin DOMAIN rec.md THEN Exc("KeyError", rec)
    ELSE Ret(NoneV, SetItem(rec, key, value))

\* remove without the try block: the KeyError of del propagates
remove_raises(rec, key) ==
    IF key \in DOMAIN rec.md
    THEN Ret(NoneV, [rec EXCEPT !.md = [k \in (DOMAIN rec.md) \ {key} |-> rec.md[k]]])
    ELSE Exc("KeyError", rec)

\* AbstractMetadata.remove: del in a try block, the KeyError is printed
remove(rec, key) ==
    IF key \in DOMAIN rec.md
    THEN Ret(NoneV, [rec EXCEPT !.md = [k \in (DOMAIN rec.md) \ {key} |-> rec.md[k]]])
    ELSE [Ret(NoneV, rec) EXCEPT !.printed = TRUE]

\* ---- the composite: Metadata._metadata, a dict key -> record reference.
\* No result of Metadata.get depends on the order of the dict (see
\* Metadata_get), so the dict is a function.
CRet(md) == [outcome |-> "returned", error |-> "none", composite |-> md]
CExc(error, md) == [outcome |-> "raised", error |-> error, composite |-> md]

\* Metadata.add that keeps the record already stored under the key
Metadata_add_keeps(md, rec, ref) ==
    IF "metadata_type" \notin rec.attrs THEN CExc("AttributeError", md)
    ELSE CRet(md @@ (str_lower(rec.metadata_type) :> ref))

\* Metadata.add: the key is metadata.metadata_type.lower()
Metadata_add(md, rec, ref) ==
    IF "metadata_type" \notin rec.attrs THEN CExc("AttributeError", md)
    ELSE CRet((str_lower(rec.metadata_type) :> ref) @@ md)

\* the keys of the dict that contain metadata_type, ignoring case
Matches(md, metadata_type) ==
    {k \in DOMAIN md : str_in(str_lower(metadata_type), str_lower(k))}

\* Metadata.get: next() over the values of the matching keys raises
\* StopIteration when there is none; otherwise len() is applied to the first
\* record found, and the record classes define no __len__
Metadata_get(md, metadata_type) ==
    IF Matches(md, metadata_type) = {} THEN CExc("StopIteration", md)
    ELSE CExc("TypeError", md)

\* AbstractMetadataFactory.__init__(self, entity, name, **kwargs) called with
\* nargs positional arguments after self: it takes two, and then updates
\* self._addl_params, an attribute nothing has assigned
AbstractMetadataFactory_init(nargs) ==
    IF nargs # 2 THEN "TypeError" ELSE "AttributeError"

\* MetadataFileFactory.__init__: hands kwargs on as a third positional argument
MetadataFileFactory_init == AbstractMetadataFactory_init(3)

\* DataStoreFile._build_metadata: the factory, then create_admin, create_desc,
\* create_tech, create_process and factory.metadata; the first statement raises
build_metadata(md) == CExc(MetadataFileFactory_init, md)

\* ===================================== File (core/file.py and base/file.py)
\* os.path.basename(path): the file name, a stem and its suffixes
basename(path) == [stem |-> path.stem, exts |-> path.exts]

\* os.path.join(directory, name), for a name without a separator
join(directory, name) == [dir |-> directory, stem |-> name.stem, exts |-> name.exts]

\* root + ext, ext being '' or one suffix
StrCat(root, ext) == IF ext = "" THEN root ELSE PathPlus(root, ext)

\* a directory a file can be created in: the working directory ('') or one on disk
dir_exists(ds, directory) == directory = <<>> \/ directory \in ds

\* the file system after the file at src became the file at dst
Renamed(fs, src, dst) ==
    [q \in (DOMAIN fs \ {src}) \cup {dst} |-> IF q = dst THEN fs[src] ELSE fs[q]]

\* os.rename(src, dst) and shutil.move(src, dst) onto a destination that is
\* not a directory: FileNotFoundError without the source or the destination's
\* directory; an existing destination file is replaced
os_rename(ds, fs, src, dst) ==
    IF src \notin DOMAIN fs \/ ~dir_exists(ds, dirname(dst))
    THEN [error |-> "FileNotFoundError", files |-> fs]
    ELSE [error |-> "none", files |-> Renamed(fs, src, dst)]

\* shutil.copy2(src, dst): as above, and SameFileError when src is dst
copy2(ds, fs, src, dst) ==
    IF src \notin DOMAIN fs \/ ~dir_exists(ds, dirname(dst))
    THEN [error |-> "FileNotFoundError", files |-> fs]
    ELSE IF src = dst THEN [error |-> "SameFileError", files |-> fs]
    ELSE [error |-> "none", files |-> Store(fs, dst, fs[src])]

\* the methods each draft's File has besides those both define: base File
\* inherits unlock and _is_unlocked from FileObject, core File has no base
\* class and defines neither
FileMethods(draft) ==
    IF draft = "base" THEN {"lock", "unlock", "_is_unlocked"} ELSE {"lock"}

\* File.__init__
File_init(draft, fs, path) ==
    [draft |-> draft, name |-> splitext(basename(path))[1], path |-> path,
     directory |-> dirname(path), locked |-> FALSE, exists |-> path \in DOMAIN fs,
     filename |-> basename(path), fileext |-> splitext(path)[2]]

\* _update_filename_data that records the path alone
update_filename_data_path_only(f, path) == [f EXCEPT !.path = path]

\* File._update_filename_data
update_filename_data(f, path) ==
    [f EXCEPT !.path = path, !.directory = dirname(path),
              !.filename = basename(path), !.fileext = splitext(path)[2]]

\* what a call on a File hands back: the outcome, the handle and the disk after it
FRet(result, f, ds, fs, printed) ==
    [outcome |-> "returned", error |-> "none", result |-> result, fobj |-> f,
     dirs |-> ds, files |-> fs, printed |-> printed]
FExc(error, f, ds, fs) ==
    [outcome |-> "raised", error |-> error, result |-> NoneV, fobj |-> f,
     dirs |-> ds, files |-> fs, printed |-> FALSE]

\* FileObject.lock / File.lock
File_lock(f, ds, fs) == FRet(NoneV, [f EXCEPT !.locked = TRUE], ds, fs, FALSE)

\* FileObject.unlock
File_unlock(f, ds, fs) ==
    IF "unlock" \notin FileMethods(f.draft) THEN FExc("AttributeError", f, ds, fs)
    ELSE FRet(NoneV, [f EXCEPT !.locked = FALSE], ds, fs, FALSE)

\* FileObject._is_unlocked: prints when the file is locked
is_unlocked(f) == ~f.locked

\* File.copy
File_copy(f, ds, fs, path) ==
    LET c == copy2(ds, fs, f.path, path) IN
    IF c.error # "none" THEN FExc(c.error, f, ds, fs)
    ELSE FRet(PathV(path), f, ds, c.files, FALSE)

\* File.move
File_move(f, ds, fs, path) ==
    IF "_is_unlocked" \notin FileMethods(f.draft) THEN FExc("AttributeError", f, ds, fs)
    ELSE IF is_unlocked(f)
    THEN LET m == os_rename(ds, fs, f.path, path) IN
         IF m.error # "none" THEN FExc(m.error, f, ds, fs)
         ELSE FRet(PathV(path), update_filename_data(f, path), ds, m.files, FALSE)
    ELSE FRet(NoneV, f, ds, fs, TRUE)

\* the path File.rename builds: the directory joined with the name, without
\* the name's final suffix, plus the file's own suffix
rename_path(f, name) == StrCat(splitext(join(f.directory, name))[1], f.fileext)

\* File.rename
File_rename(f, ds, fs, name) ==
    IF "_is_unlocked" \notin FileMethods(f.draft) THEN FExc("AttributeError", f, ds, fs)
    ELSE IF is_unlocked(f)
    THEN LET new_path == rename_path(f, name)
             m == os_rename(ds, fs, f.path, new_path) IN
         IF m.error # "none" THEN FExc(m.error, f, ds, fs)
         ELSE FRet(PathV(new_path), update_filename_data(f, new_path), ds, m.files, FALSE)
    ELSE FRet(NoneV, f, ds, fs, TRUE)

\* File.read: the dispatcher's read of self._path
File_read(f, ds, fs, filter) ==
    LET r == FileIO_read(f.draft, "io1", ds, fs, f.path, filter) IN
    IF r.outcome = "raised" THEN FExc("Exception", f, r.dirs, r.files)
    ELSE FRet(r.result, f, r.dirs, r.files, r.diag # <<>>)

\* File.write: the dispatcher's write of self._path when unlocked; the
\* dispatcher's result is dropped
File_write(f, ds, fs, content) ==
    IF "_is_unlocked" \notin FileMethods(f.draft) THEN FExc("AttributeError", f, ds, fs)
    ELSE IF is_unlocked(f)
    THEN LET w == FileIO_write(f.draft, "io1", ds, fs, f.path, content) IN
         IF w.outcome = "raised" THEN FExc("Exception", f, w.dirs, w.files)
         ELSE FRet(NoneV, f, w.dirs, w.files, w.diag # <<>>)
    ELSE FRet(NoneV, f, ds, fs, TRUE)

\* ================================== metadata factories (core/metadata.py)
\* A factory object holds _metadata, a reference to a Metadata object; the
\* Metadata objects made by factories live in heap, a sequence of dicts, and
\* a reference is an index into it.
\* no factory constructed
NoFactory == [class |-> "none", attrs |-> {}, name |-> "", metadata |-> 0]

GRet(result, f, h) ==
    [outcome |-> "returned", error |-> "none", result |-> result, factory |-> f, heap |-> h]
GExc(error, f, h) ==
    [outcome |-> "raised", error |-> error, result |-> 0, factory |-> f, heap |-> h]

\* _reset: self._metadata = Metadata()
reset(f, h) ==
    GRet(0, [f EXCEPT !.attrs = @ \cup {"_metadata"}, !.metadata = Len(h) + 1],
         Append(h, <<>>))

\* cls(entity, name): MetadataRemoteFactory defines its own __init__, which
\* assigns _entity and _name and resets; the other factories hand kwargs to
\* AbstractMetadataFactory.__init__ as a third positional argument
Factory_init(cls, name, h) ==
    IF cls = "MetadataRemoteFactory"
    THEN reset([class |-> cls, attrs |-> {"_entity", "_name"}, name |-> name,
                metadata |-> 0], h)
    ELSE GExc(AbstractMetadataFactory_init(3), NoFactory, h)

\* the metadata property without its reset
metadata_property_keeps(f, h) == GRet(f.metadata, f, h)

\* the metadata property: metadata = self._metadata; self._reset(); return
metadata_property(f, h) ==
    LET r == reset(f, h) IN GRet(f.metadata, r.factory, r.heap)

\* the record class each create_* of MetadataRemoteFactory constructs
CreatedClass(kind) ==
    CASE kind = "create_admin" -> "MetadataAdminURL"
      [] kind = "create_desc" -> "MetadataDesc"
      [] kind = "create_tech" -> "MetadataTech"
      [] kind = "create_process" -> "MetadataProcess"

\* MetadataRemoteFactory.create_*: cls(self._entity, self._name,
\* self._addl_params), then self._metadata.add(record).  The arguments are
\* evaluated first, and __init__ never assigns _addl_params; with it, the
\* constructor would be given three positional arguments
create(f, h, kind) ==
    IF "_addl_params" \notin f.attrs THEN GExc("AttributeError", f, h)
    ELSE LET b == AbstractMetadata_init(CreatedClass(kind), f.name, 3) IN
         IF b.outcome = "raised" THEN GExc(b.error, f, h)
         ELSE GRet(0, f, [h EXCEPT ![f.metadata] =
                              (str_lower(b.rec.metadata_type) :> b.rec) @@ @])

\* MetadataFactoryDirector.__init__: the factory class is looked up under the
\* entity's class name and constructed with kwargs
FactoryOf(entityclass) ==
    CASE entityclass = "DataSet" -> "MetadataDataSetFactory"
      [] entityclass = "DataCollection" -> "MetadataDataCollectionFactory"
      [] entityclass = "DataStoreFile" -> "MetadataFileFactory"
      [] OTHER -> "none"

Director_init(entityclass, name, h) ==
    IF FactoryOf(entityclass) = "none" THEN GExc("KeyError", NoFactory, h)
    ELSE Factory_init(FactoryOf(entityclass), name, h)

\* ================================= entities and collections (core/data.py)
\* The objects of core/data.py are taken as the assignments of their
\* constructors leave them: a data store or data source with its name and the
\* name its administrative record was seeded with, a DataCollection with its
\* dict of members.  AbstractDataSet.lock / unlock act on one member.
DataSet_lock(member) == [member EXCEPT !.locked = TRUE]
DataSet_unlock(member) == [member EXCEPT !.locked = FALSE]

\* what a call on an entity or a collection hands back
DRet(e, c) == [outcome |-> "returned", error |-> "none", entity |-> e, coll |-> c]
DExc(error, e, c) == [outcome |-> "raised", error |-> error, entity |-> e, coll |-> c]

\* AbstractDataStore.name / AbstractDataSource.name setter: self._name is
\* assigned first, then the administrative record is looked up in
\* self._metadata and changed
set_name(e, c, value) ==
    IF "_metadata" \notin e.attrs
    THEN DExc("AttributeError", [e EXCEPT !.name = value], c)
    ELSE DRet([e EXCEPT !.name = value, !.admin_name = value], c)

\* DataCollection.lock(name=None): every member's lock()
DataCollection_lock(e, c) == DRet(e, [k \in DOMAIN c |-> DataSet_lock(c[k])])

\* DataCollection.unlock(name=None): the loop calls v.lock() on every member
DataCollection_unlock(e, c) == DRet(e, [k \in DOMAIN c |-> DataSet_lock(c[k])])

\* DataCollection.remove: del self._collection[key]
DataCollection_remove(e, c, key) ==
    IF key \notin DOMAIN c THEN DExc("KeyError", e, c)
    ELSE DRet(e, [k \in (DOMAIN c) \ {key} |-> c[k]])

\* ------------------------------------------------------------------ inputs
P(dir, exts) == [dir |-> dir, stem |-> "a", exts |-> exts]

\* a.csv, d/a.csv, d/e/a.csv, d/a.CSV, d/a, d/a.csv.gz, d/a.txt, d/a.npy
Paths == {P(<<>>, <<".csv">>), P(<<"d">>, <<".csv">>), P(<<"d", "e">>, <<".csv">>),
          P(<<"d">>, <<".CSV">>), P(<<"d">>, <<>>), P(<<"d">>, <<".csv", ".gz">>),
          P(<<"d">>, <<".txt">>), P(<<"d">>, <<".npy">>)}

\* the paths read: one per final suffix
ReadPaths == {path \in Paths : path.dir = <<"d">>}

\* a one-column table of one row, a two-column table of two rows
Tables == {TableV(<<"id">>, 1), TableV(<<"id", "bathrooms">>, 2)}
Strs == {StrV(<<"x", "y">>)}
Arrays == {ArrayV(1)}
Contents == Tables \cup Strs \cup Arrays

\* ['id'] and ['id', 'bathrooms']: the second names a column the
\* one-column table does not have
ColFilters == {[type |-> "cols", cols |-> c] : c \in {{"id"}, {"id", "bathrooms"}}}
Filters == {NoneV} \cup ColFilters
IntFilters == {[type |-> "int", n |-> 1]}

\* the filters tried on a strategy: column lists on the tabular ones, a
\* character count on the text one
FiltersOf(s) == IF s = "core.FileIOTXT" THEN {NoneV} \cup IntFilters ELSE Filters

\* np.save is only handed arrays
ContentsOf(s) == IF s = "base.FileIONumpy" THEN Arrays ELSE Contents

\* the dispatcher objects (FileIO() / FileIOFactory() instances)
Dispatchers == {"io1", "io2"}

NoCall == [op |-> "none", via |-> "none", draft |-> "none", strategy |-> "none",
           path |-> P(<<>>, <<>>), arg |-> NoneV, outcome |-> "none",
           result |-> NoneV, diag |-> <<>>]

\* ---- metadata inputs
Refs == {1, 2}
RecordClasses == {"AbstractMetadata", "MetadataAdmin", "MetadataDesc", "MetadataTech",
                  "MetadataProcess"}
Names == {"sf_listings"}
MetaKeys == {"name", "updates", "note"}
MetaValues == {IntV(0), StrV("v")}
Events == {NoneV, StrV("e")}
Queries == {<<"p", "r", "o", "c">>, <<"P", "R", "O", "C">>, <<"t", "e", "c", "h">>}

NoMCall == [op |-> "none", ref |-> 0, key |-> NoKey, value |-> NoneV, outcome |-> "none",
            error |-> "none", result |-> NoneV, printed |-> FALSE, before |-> NoRecord,
            cbefore |-> <<>>]

\* ---- File inputs
\* the files on disk before the first call: d/a.csv, a one-column table, and
\* d/a, a text file without a suffix; the directories d and d/e exist
DiskDirs == {<<"d">>, <<"d", "e">>}
DiskFiles ==
    (P(<<"d">>, <<".csv">>) :> to_csv(TableV(<<"id">>, 1), FALSE, FALSE))
        @@ (P(<<"d">>, <<>>) :> [kind |-> "txt", text |-> <<"x">>])

\* the paths a File is made for and moved or copied to
FilePaths == {P(<<"d">>, <<".csv">>), P(<<"d">>, <<>>), P(<<"d", "e">>, <<".csv">>),
              P(<<"f">>, <<".csv">>)}

\* the names a File is renamed to: 'b.txt', 'b' and 'b.tar.gz'
FileNames == {[stem |-> "b", exts |-> <<".txt">>], [stem |-> "b", exts |-> <<>>],
              [stem |-> "b", exts |-> <<".tar", ".gz">>]}

NoFile == [draft |-> "none", name |-> P(<<>>, <<>>), path |-> P(<<>>, <<>>),
           directory |-> <<>>, locked |-> FALSE, exists |-> FALSE,
           filename |-> basename(P(<<>>, <<>>)), fileext |-> ""]

NoFCall == [op |-> "none", arg |-> NoneV, outcome |-> "none", error |-> "none",
            result |-> NoneV, printed |-> FALSE, before |-> NoFile]

\* ---- text strategy inputs
\* d/a.txt, a.txt and d/a, which is written as d/a.txt
TxtPaths == {P(<<"d">>, <<".txt">>), P(<<>>, <<".txt">>), P(<<"d">>, <<>>)}
\* 'xy', '', 'x\r\ny' and '\r'; ['x', 'yz'], ['x\n', 'y'] and []
TxtStrs == {StrV(<<"x", "y">>), StrV(<<>>), StrV(<<"x", "\r", "\n", "y">>), StrV(<<"\r">>)}
TxtLists == {ListV(<< <<"x">>, <<"y", "z">> >>), ListV(<< <<"x", "\n">>, <<"y">> >>),
             ListV(<<>>)}
TxtFilters == {NoneV, [type |-> "int", n |-> 1], [type |-> "int", n |-> 3]}

\* ---- factory inputs
FactoryClasses == {"MetadataDataSetFactory", "MetadataDataCollectionFactory",
                   "MetadataFileFactory", "MetadataRDBMSFactory", "MetadataRemoteFactory"}
CreateKinds == {"create_admin", "create_desc", "create_tech", "create_process"}
DirectorEntities == {"DataStoreFile", "DataSourceFile"}

\* ---- entity and collection inputs
\* the attributes the constructors of DataStoreFile and DataSourceFile assign
EntityAttrs == {"_name", "_path", "_locked", "_is_collection", "_io", "metadata"}
EntityClasses == {"DataStoreFile", "DataSourceFile"}
Entities == {[class |-> cls, attrs |-> EntityAttrs, name |-> "sf_listings",
              admin_name |-> "sf_listings"] : cls \in EntityClasses}
NewNames == {"sf_listings", "nashville"}

\* the keys of a collection's members, '<class>_<name>', and the collections:
\* any of the two members, each locked or not
MemberKeys == {"dataset_sf", "dataset_nashville"}
Member(k, locked) == [name |-> k, locked |-> locked]
Collections ==
    UNION {[ks -> BOOLEAN] : ks \in SUBSET MemberKeys}
Collection(flags) == [k \in DOMAIN flags |-> Member(k, flags[k])]

NoEntity == [class |-> "none", attrs |-> {}, name |-> "", admin_name |-> ""]
NoDCall == [op |-> "none", arg |-> "", outcome |-> "none", error |-> "none",
            before |-> <<>>]

\* --------------------------------------------------------------- behaviour
Init ==
    /\ dirs = {}
    /\ files = <<>>
    /\ FILE_HANDLERS = Handlers0
    /\ call = NoCall
    /\ ncalls = 0
    /\ records = [ref \in Refs |-> NoRecord]
    /\ composite = <<>>
    /\ mcall = NoMCall
    /\ fobj = NoFile
    /\ fcall = NoFCall
    /\ entity = NoEntity
    /\ coll = <<>>
    /\ dcall = NoDCall
    /\ factory = NoFactory
    /\ heap = <<>>
    /\ handed = <<>>

Record(op, via, draft, path, arg, r) ==
    [op |-> op, via |-> via, draft |-> draft, strategy |-> r.strategy, path |-> path,
     arg |-> arg, outcome |-> r.outcome, result |-> r.result, diag |-> r.diag]

Effect(r) ==
    /\ ncalls' = ncalls + 1
    /\ dirs' = r.dirs
    /\ files' = r.files
    /\ UNCHANGED <<FILE_HANDLERS, records, composite, mcall, fobj, fcall, entity, coll, dcall, factory, heap, handed>>

\* FileIO.read / FileIOFactory.read
Read(draft, io, path, filter) ==
    LET r == FileIO_read(draft, io, dirs, files, path, filter) IN
    /\ ncalls < MaxCalls
    /\ call' = Record("read", "dispatcher", draft, path, filter, r)
    /\ Effect(r)

\* FileIO.write / FileIOFactory.write
Write(draft, io, path, content) ==
    LET r == FileIO_write(draft, io, dirs, files, path, content) IN
    /\ ncalls < MaxCalls
    /\ get_file_handler(draft, io, path) # "raise"
          => content \in ContentsOf(get_file_handler(draft, io, path))
    /\ call' = Record("write", "dispatcher", draft, path, content, r)
    /\ Effect(r)

\* a strategy's read called on the strategy itself, on a path of its own format
DirectRead(s, path, filter) ==
    LET r == [strategy |-> s] @@ StrategyRead(s, dirs, files, path, filter) IN
    /\ ncalls < MaxCalls
    /\ splitext(path)[2] = CanonExt(s)
    /\ call' = Record("read", "strategy", DraftOf(s), path, filter, r)
    /\ Effect(r)

\* a strategy's write called on the strategy itself
DirectWrite(s, path, content) ==
    LET r == [strategy |-> s] @@ StrategyWrite(s, dirs, files, path, content) IN
    /\ ncalls < MaxCalls
    /\ call' = Record("write", "strategy", DraftOf(s), path, content, r)
    /\ Effect(r)

Next ==
    \/ \E draft \in Drafts, io \in Dispatchers, path \in ReadPaths, filter \in Filters :
          Read(draft, io, path, filter)
    \/ \E draft \in Drafts, io \in Dispatchers, path \in Paths, content \in Contents :
          Write(draft, io, path, content)
    \/ \E s \in DirectStrategies, path \in ReadPaths : \E filter \in FiltersOf(s) :
          DirectRead(s, path, filter)
    \/ \E s \in DirectStrategies, path \in Paths : \E content \in ContentsOf(s) :
          DirectWrite(s, path, content)

Spec == Init /\ [][Next]_vars

\* -------------------------------------------- behaviour of the text strategy
\* FileIOTXT().write(path, content)
TxtWrite(path, content) ==
    LET r == [strategy |-> "core.FileIOTXT"]
                 @@ FileIOTXT_write("core", dirs, files, path, content) IN
    /\ ncalls < MaxTxtCalls
    /\ call' = Record("write", "strategy", "core", path, content, r)
    /\ Effect(r)

\* FileIOTXT().read(path, filter)
TxtRead(path, filter) ==
    LET r == [strategy |-> "core.FileIOTXT"]
                 @@ FileIOTXT_read(dirs, files, path, filter) IN
    /\ ncalls < MaxTxtCalls
    /\ call' = Record("read", "strategy", "core", path, filter, r)
    /\ Effect(r)

NextTxt ==
    \/ \E path \in TxtPaths, content \in TxtStrs \cup TxtLists : TxtWrite(path, content)
    \/ \E path \in TxtPaths, filter \in TxtFilters : TxtRead(path, filter)

SpecTxt == Init /\ [][NextTxt]_vars

\* ------------------------------------------------- behaviour of the metadata
MCall(op, ref, key, value, r, before) ==
    [op |-> op, ref |-> ref, key |-> key, value |-> value, outcome |-> r.outcome,
     error |-> r.error, result |-> r.result, printed |-> r.printed, before |-> before,
     cbefore |-> composite]

MetaEffect(c) ==
    /\ ncalls' = ncalls + 1
    /\ mcall' = c
    /\ UNCHANGED <<dirs, files, FILE_HANDLERS, call, fobj, fcall, entity, coll, dcall, factory, heap, handed>>

\* the outcome of a call on the composite, in the shape of a record call's
COut(r) == [outcome |-> r.outcome, error |-> r.error, result |-> NoneV, printed |-> FALSE]

\* ref = cls(entity, name)
NewRecord(cls, ref, name) ==
    LET r == Construct(cls, name) IN
    /\ ncalls < MaxMetaCalls
    /\ records[ref] = NoRecord
    /\ records' = [records EXCEPT ![ref] = r.rec]
    /\ UNCHANGED composite
    /\ MetaEffect(MCall(cls, ref, NoKey, StrV(name), r, NoRecord))

\* a call of a record's method, with the object as the method left it
OnRecord(op, ref, key, value, r) ==
    /\ records' = [records EXCEPT ![ref] = r.rec]
    /\ UNCHANGED composite
    /\ MetaEffect(MCall(op, ref, key, value, r, records[ref]))

RecordUpdate(ref, event) ==
    /\ ncalls < MaxMetaCalls
    /\ records[ref] # NoRecord
    /\ OnRecord("update", ref, NoKey, event, update(records[ref], event))

RecordGet(ref, key) ==
    /\ ncalls < MaxMetaCalls
    /\ records[ref] # NoRecord
    /\ OnRecord("get", ref, key, NoneV, get(records[ref], key))

RecordAdd(ref, key, value) ==
    /\ ncalls < MaxMetaCalls
    /\ records[ref] # NoRecord
    /\ OnRecord("add", ref, key, value, add(records[ref], key, value))

RecordChange(ref, key, value) ==
    /\ ncalls < MaxMetaCalls
    /\ records[ref] # NoRecord
    /\ OnRecord("change", ref, key, value, change(records[ref], key, value))

RecordRemove(ref, key) ==
    /\ ncalls < MaxMetaCalls
    /\ records[ref] # NoRecord
    /\ OnRecord("remove", ref, key, NoneV, remove(records[ref], key))

\* Metadata.add(records[ref])
CompositeAdd(ref) ==
    LET r == Metadata_add(composite, records[ref], ref) IN
    /\ ncalls < MaxMetaCalls
    /\ records[ref] # NoRecord
    /\ composite' = r.composite
    /\ UNCHANGED records
    /\ MetaEffect(MCall("Metadata.add", ref, NoKey, NoneV, COut(r), records[ref]))

\* Metadata.get(metadata_type)
CompositeGet(metadata_type) ==
    LET r == Metadata_get(composite, metadata_type) IN
    /\ ncalls < MaxMetaCalls
    /\ composite' = r.composite
    /\ UNCHANGED records
    /\ MetaEffect(MCall("Metadata.get", 0, NoKey, StrV(metadata_type), COut(r), NoRecord))

\* DataStoreFile(name, path): self.metadata = self._build_metadata()
BuildMetadata(name) ==
    LET r == build_metadata(composite) IN
    /\ ncalls < MaxMetaCalls
    /\ composite' = r.composite
    /\ UNCHANGED records
    /\ MetaEffect(MCall("DataStoreFile", 0, NoKey, StrV(name), COut(r), NoRecord))

\* ---- factories
FactoryEffect(c, r) ==
    /\ ncalls' = ncalls + 1
    /\ mcall' = c
    /\ factory' = r.factory
    /\ heap' = r.heap
    /\ UNCHANGED <<dirs, files, FILE_HANDLERS, call, records, composite, fobj, fcall,
                   entity, coll, dcall>>

\* factory = cls(entity, name)
NewFactory(cls, name) ==
    LET r == Factory_init(cls, name, heap) IN
    /\ ncalls < MaxMetaCalls
    /\ factory = NoFactory
    /\ UNCHANGED handed
    /\ FactoryEffect(MCall(cls, 0, NoKey, StrV(name), COut(r), NoRecord), r)

\* MetadataFactoryDirector(entity, name, **kwargs)
NewDirector(entityclass, name) ==
    LET r == Director_init(entityclass, name, heap) IN
    /\ ncalls < MaxMetaCalls
    /\ factory = NoFactory
    /\ UNCHANGED handed
    /\ FactoryEffect(MCall("MetadataFactoryDirector", 0, NoKey, StrV(name), COut(r),
                           NoRecord), r)

\* m = factory.metadata: the caller keeps the reference it is handed
FactoryMetadata ==
    LET r == metadata_property(factory, heap) IN
    /\ ncalls < MaxMetaCalls
    /\ factory # NoFactory
    /\ handed' = Append(handed, r.result)
    /\ FactoryEffect(MCall("factory.metadata", r.result, NoKey, NoneV, COut(r), NoRecord), r)

\* factory.create_admin() and the like
FactoryCreate(kind) ==
    LET r == create(factory, heap, kind) IN
    /\ ncalls < MaxMetaCalls
    /\ factory # NoFactory
    /\ UNCHANGED handed
    /\ FactoryEffect(MCall(kind, 0, NoKey, NoneV, COut(r), NoRecord), r)

NextMeta ==
    \/ \E cls \in RecordClasses, ref \in Refs, name \in Names : NewRecord(cls, ref, name)
    \/ \E ref \in Refs, event \in Events : RecordUpdate(ref, event)
    \/ \E ref \in Refs, key \in MetaKeys \cup {NoKey} : RecordGet(ref, key)
    \/ \E ref \in Refs, key \in MetaKeys, value \in MetaValues : RecordAdd(ref, key, value)
    \/ \E ref \in Refs, key \in MetaKeys, value \in MetaValues : RecordChange(ref, key, value)
    \/ \E ref \in Refs, key \in MetaKeys : RecordRemove(ref, key)
    \/ \E ref \in Refs : CompositeAdd(ref)
    \/ \E metadata_type \in Queries : CompositeGet(metadata_type)
    \/ \E name \in Names : BuildMetadata(name)
    \/ \E cls \in FactoryClasses, name \in Names : NewFactory(cls, name)
    \/ \E entityclass \in DirectorEntities, name \in Names : NewDirector(entityclass, name)
    \/ FactoryMetadata
    \/ \E kind \in CreateKinds : FactoryCreate(kind)

SpecMeta == Init /\ [][NextMeta]_vars

\* ------------------------------------------------------ behaviour of a File
InitFile ==
    /\ dirs = DiskDirs
    /\ files = DiskFiles
    /\ FILE_HANDLERS = Handlers0
    /\ call = NoCall
    /\ ncalls = 0
    /\ records = [ref \in Refs |-> NoRecord]
    /\ composite = <<>>
    /\ mcall = NoMCall
    /\ fobj = NoFile
    /\ fcall = NoFCall
    /\ entity = NoEntity
    /\ coll = <<>>
    /\ dcall = NoDCall
    /\ factory = NoFactory
    /\ heap = <<>>
    /\ handed = <<>>

\* a call on the File: the handle and the disk as the method left them
OnFile(op, arg, r) ==
    /\ ncalls' = ncalls + 1
    /\ fobj' = r.fobj
    /\ dirs' = r.dirs
    /\ files' = r.files
    /\ fcall' = [op |-> op, arg |-> arg, outcome |-> r.outcome, error |-> r.error,
                 result |-> r.result, printed |-> r.printed, before |-> fobj]
    /\ UNCHANGED <<FILE_HANDLERS, call, records, composite, mcall, entity, coll, dcall,
                   factory, heap, handed>>

\* f = File(path), in either draft
NewFile(draft, path) ==
    /\ ncalls < MaxFileCalls
    /\ fobj = NoFile
    /\ OnFile("File", PathV(path), FRet(NoneV, File_init(draft, files, path), dirs, files, FALSE))

FileLock ==
    /\ ncalls < MaxFileCalls
    /\ fobj # NoFile
    /\ OnFile("lock", NoneV, File_lock(fobj, dirs, files))

FileUnlock ==
    /\ ncalls < MaxFileCalls
    /\ fobj # NoFile
    /\ OnFile("unlock", NoneV, File_unlock(fobj, dirs, files))

FileCopy(path) ==
    /\ ncalls < MaxFileCalls
    /\ fobj # NoFile
    /\ OnFile("copy", PathV(path), File_copy(fobj, dirs, files, path))

FileMove(path) ==
    /\ ncalls < MaxFileCalls
    /\ fobj # NoFile
    /\ OnFile("move", PathV(path), File_move(fobj, dirs, files, path))

FileRename(name) ==
    /\ ncalls < MaxFileCalls
    /\ fobj # NoFile
    /\ OnFile("rename", [type |-> "name", name |-> name], File_rename(fobj, dirs, files, name))

FileRead(filter) ==
    /\ ncalls < MaxFileCalls
    /\ fobj # NoFile
    /\ OnFile("read", filter, File_read(fobj, dirs, files, filter))

FileWrite(content) ==
    /\ ncalls < MaxFileCalls
    /\ fobj # NoFile
    /\ OnFile("write", content, File_write(fobj, dirs, files, content))

NextFile ==
    \/ \E draft \in Drafts, path \in FilePaths : NewFile(draft, path)
    \/ FileLock
    \/ FileUnlock
    \/ \E path \in FilePaths : FileCopy(path)
    \/ \E path \in FilePaths : FileMove(path)
    \/ \E name \in FileNames : FileRename(name)
    \/ \E filter \in {NoneV} : FileRead(filter)
    \/ \E content \in Tables : FileWrite(content)

SpecFile == InitFile /\ [][NextFile]_vars

\* ------------------------------------ behaviour of entities and collections
InitData ==
    /\ dirs = {}
    /\ files = <<>>
    /\ FILE_HANDLERS = Handlers0
    /\ call = NoCall
    /\ ncalls = 0
    /\ records = [ref \in Refs |-> NoRecord]
    /\ composite = <<>>
    /\ mcall = NoMCall
    /\ fobj = NoFile
    /\ fcall = NoFCall
    /\ entity \in Entities
    /\ \E flags \in Collections : coll = Collection(flags)
    /\ dcall = NoDCall
    /\ factory = NoFactory
    /\ heap = <<>>
    /\ handed = <<>>

OnData(op, arg, r) ==
    /\ ncalls' = ncalls + 1
    /\ entity' = r.entity
    /\ coll' = r.coll
    /\ dcall' = [op |-> op, arg |-> arg, outcome |-> r.outcome, error |-> r.error,
                 before |-> coll]
    /\ UNCHANGED <<dirs, files, FILE_HANDLERS, call, records, composite, mcall, fobj, fcall,
                   factory, heap, handed>>

\* entity.name = value
SetName(value) ==
    /\ ncalls < MaxDataCalls
    /\ OnData("name", value, set_name(entity, coll, value))

\* member.lock() / member.unlock() on one member of the collection
MemberLock(k) ==
    /\ ncalls < MaxDataCalls
    /\ k \in DOMAIN coll
    /\ OnData("member.lock", k, DRet(entity, [coll EXCEPT ![k] = DataSet_lock(@)]))

MemberUnlock(k) ==
    /\ ncalls < MaxDataCalls
    /\ k \in DOMAIN coll
    /\ OnData("member.unlock", k, DRet(entity, [coll EXCEPT ![k] = DataSet_unlock(@)]))

CollectionLock ==
    /\ ncalls < MaxDataCalls
    /\ OnData("lock", "", DataCollection_lock(entity, coll))

CollectionUnlock ==
    /\ ncalls < MaxDataCalls
    /\ OnData("unlock", "", DataCollection_unlock(entity, coll))

CollectionRemove(key) ==
    /\ ncalls < MaxDataCalls
    /\ OnData("remove", key, DataCollection_remove(entity, coll, key))

NextData ==
    \/ \E value \in NewNames : SetName(value)
    \/ \E k \in MemberKeys : MemberLock(k)
    \/ \E k \in MemberKeys : MemberUnlock(k)
    \/ CollectionLock
    \/ CollectionUnlock
    \/ \E key \in MemberKeys : CollectionRemove(key)

SpecData == InitData /\ [][NextData]_vars

\* ================================================================== claims
Ext(path) == splitext(path)[2]
Registered(draft, ext) == ext \in DOMAIN FILE_HANDLERS[draft]
ViaDispatcher(c) == c.via = "dispatcher"
TabularStrategies == {"core.FileIOCSV", "core.FileIOCSVgz", "base.FileIOCSV", "base.FileIOCSVgz"}

\* C1: a dispatcher read or write on a path whose final suffix is not a
\* registry key raises at once: no strategy is invoked, and the directories
\* and files on disk are what they were before the call.
C1_UnregisteredRaises ==
    [][(ViaDispatcher(call') /\ ~Registered(call'.draft, Ext(call'.path)))
         => /\ call'.outcome = "raised"
            /\ call'.strategy = "none"
            /\ dirs' = dirs
            /\ files' = files]_vars

C1_Witness ==
    /\ ViaDispatcher(call)
    /\ call.op = "write"
    /\ call.arg.type = "table"
    /\ Ext(call.path) = ".txt"
    /\ call.outcome = "raised"
    /\ call.strategy = "none"

\* C2: a dispatcher read of a path with a registered suffix at which no file
\* exists does not raise: it returns None, emits a diagnostic, and leaves the
\* directories and files on disk unchanged.
C2_MissingFileReturnsNone ==
    [][(/\ ViaDispatcher(call')
        /\ call'.op = "read"
        /\ Registered(call'.draft, Ext(call'.path))
        /\ call'.path \notin DOMAIN files)
         => /\ call'.outcome = "returned"
            /\ call'.result = NoneV
            /\ call'.diag # <<>>
            /\ dirs' = dirs
            /\ files' = files]_vars

C2_Witness ==
    /\ ViaDispatcher(call)
    /\ call.op = "read"
    /\ Ext(call.path) = ".csv"
    /\ call.path \notin DOMAIN files
    /\ call.outcome = "returned"
    /\ call.result = NoneV
    /\ call.diag = <<"not_exist">>

\* C3: when a table T has just been written to a .csv or .gz path and that
\* path is read back with no column filter, the table read has exactly the
\* column set of T, as many columns as T, and the row count of T.
C3_RoundTrip ==
    [][(/\ call.op = "write"
        /\ call.outcome = "returned"
        /\ call.arg.type = "table"
        /\ call.result.type = "path"
        /\ Ext(call.result.path) \in {".csv", ".gz"}
        /\ call'.op = "read"
        /\ call'.path = call.result.path
        /\ call'.arg = NoneV
        /\ call'.strategy \in TabularStrategies)
         => /\ call'.result.type = "table"
            /\ Range(call'.result.cols) = Range(call.arg.cols)
            /\ Len(call'.result.cols) = Len(call.arg.cols)
            /\ call'.result.nrows = call.arg.nrows]_vars

\* C4: a read by a CSV or gzip-CSV strategy of an existing file with a filter
\* of k column names: when all k occur in the file's header the result is a
\* table of exactly k columns, each one requested; when one does not, the
\* call returns None without raising.
C4_ColumnProjection ==
    (/\ call.op = "read"
     /\ call.strategy \in TabularStrategies
     /\ call.arg.type = "cols"
     /\ call.path \in DOMAIN files
     /\ files[call.path].kind = "csv")
      => /\ call.outcome = "returned"
         /\ IF call.arg.cols \subseteq Range(files[call.path].header)
            THEN /\ call.result.type = "table"
                 /\ Len(call.result.cols) = Cardinality(call.arg.cols)
                 /\ Range(call.result.cols) \subseteq call.arg.cols
            ELSE call.result = NoneV

C4_Witness ==
    /\ call.op = "read"
    /\ call.strategy \in TabularStrategies
    /\ call.arg.type = "cols"
    /\ call.arg.cols = {"id", "bathrooms"}
    /\ call.result.type = "table"
    /\ Len(call.result.cols) = 2

\* C5: a dispatcher read of a .csv, .gz, .txt or .npy path is never rejected
\* as unsupported, and when a file exists there it returns a table (.csv,
\* .gz), a string (.txt) or an array (.npy).
C5_FourExtensionsRegistered ==
    (/\ ViaDispatcher(call)
     /\ call.op = "read"
     /\ Ext(call.path) \in {".csv", ".gz", ".txt", ".npy"})
      => /\ call.outcome = "returned"
         /\ (call.path \in DOMAIN files /\ call.arg = NoneV)
              => call.result.type =
                   (CASE Ext(call.path) = ".txt" -> "str"
                      [] Ext(call.path) = ".npy" -> "array"
                      [] OTHER -> "table")

\* C6 as stated: the suffix is lower-cased before the lookup, so a dispatcher
\* call on a path whose lower-cased suffix is registered is not rejected and
\* goes to the strategy registered for the lower-cased suffix.
C6_LowerCasedLookup ==
    (ViaDispatcher(call) /\ Registered(call.draft, lower(Ext(call.path))))
      => /\ call.outcome = "returned"
         /\ call.strategy = FILE_HANDLERS[call.draft][lower(Ext(call.path))]

\* C6 amended: the suffix is compared as written, case-sensitively: a
\* dispatcher call reaches a strategy exactly when the suffix itself is a
\* registry key, and then the strategy registered under it; x.CSV is rejected
\* although x.csv is served.
C6_ExactSuffixLookup ==
    ViaDispatcher(call)
      => /\ (call.strategy # "none") = Registered(call.draft, Ext(call.path))
         /\ Registered(call.draft, Ext(call.path))
              => call.strategy = FILE_HANDLERS[call.draft][Ext(call.path)]
         /\ Ext(call.path) = ".CSV"
              => call.outcome = "raised" /\ call.strategy = "none"

C6_Witness ==
    /\ ViaDispatcher(call)
    /\ Ext(call.path) = ".CSV"
    /\ Registered(call.draft, ".csv")
    /\ call.outcome = "raised"

C9_WriteCreatesDirectory ==
    [][(call'.op = "write" /\ call'.strategy # "none")
         => /\ call'.outcome = "returned"
            /\ call'.result.type = "path"
                 => /\ call'.result.path \in DOMAIN files'
                    /\ dirname(call'.path) = <<>> \/ dirname(call'.path) \in dirs'
                    /\ dirs' # dirs => "dir_created" \in Range(call'.diag)]_vars

\* C10: a strategy's write handed content that is not of the type its format
\* requires (a table for CSV and gzip-CSV, a string or list of strings for
\* text, an array for the numeric format) does not raise: it reports the
\* error and returns None.
RequiredTypes(s) ==
    CASE CanonExt(s) \in {".csv", ".gz"} -> {"table"}
      [] CanonExt(s) = ".txt" -> {"str", "list"}
      [] OTHER -> {"array"}

C10_TypeMismatchReturnsNone ==
    (/\ call.op = "write"
     /\ call.strategy # "none"
     /\ call.arg.type \notin RequiredTypes(call.strategy))
      => /\ call.outcome = "returned"
         /\ call.result = NoneV
         /\ call.diag # <<>>

\* ------------------------------------------------------- metadata claims
\* the record a key of the composite refers to
RecordAt(k) == records[composite[k]]
\* the value a record holds under a key, None when the key is absent
ValueOf(rec, key) == IF key \in DOMAIN rec.md THEN rec.md[key] ELSE NoneV

\* C11: once an entity named n has been constructed, which builds its
\* administrative, descriptive, technical and process records once each, the
\* composite holds exactly 4 categories and every record in it has the name n
\* and updates 0.
C11_BuiltCompositeHasFourRecords ==
    mcall.op = "DataStoreFile" =>
        /\ mcall.outcome = "returned"
        /\ Cardinality(DOMAIN composite) = 4
        /\ \A k \in DOMAIN composite :
              /\ ValueOf(RecordAt(k), "name") = mcall.value
              /\ ValueOf(RecordAt(k), "updates") = IntV(0)

\* C12: Metadata.get(category) with a string that is, ignoring case, a
\* substring of exactly one key of the composite returns the record stored
\* under that key and does not raise.
C12_UniqueMatchReturnsRecord ==
    (mcall.op = "Metadata.get" /\ Cardinality(Matches(composite, mcall.value.text)) = 1)
        => /\ mcall.outcome = "returned"
           /\ \E k \in Matches(composite, mcall.value.text) :
                  mcall.result = [type |-> "ref", ref |-> composite[k]]

\* LookupError and its subclasses
LookupErrors == {"LookupError", "KeyError", "IndexError"}

\* C13: Metadata.get(category) raises a lookup (key) error whenever the string
\* matches no key of the composite or more than one; it never returns the
\* first of several matches.
C13_ZeroOrManyRaisesLookupError ==
    (mcall.op = "Metadata.get" /\ Cardinality(Matches(composite, mcall.value.text)) # 1)
        => /\ mcall.outcome = "raised"
           /\ mcall.error \in LookupErrors

\* C14: for a record of any category, two consecutive update() calls raise
\* its updates value by exactly 2 from the value it had before the first, and
\* an administrative record's id is the same before and after.
C14_TwoUpdatesAddTwo ==
    [][(/\ mcall.op = "update"
        /\ mcall'.op = "update"
        /\ mcall'.ref = mcall.ref
        /\ ncalls' = ncalls + 1
        /\ ValueOf(mcall.before, "updates").type = "int")
          => /\ mcall.outcome = "returned"
             /\ mcall'.outcome = "returned"
             /\ ValueOf(records'[mcall.ref], "updates")
                    = IntV(ValueOf(mcall.before, "updates").n + 2)
             /\ mcall.before.class = "MetadataAdmin"
                    => ValueOf(records'[mcall.ref], "id") = ValueOf(mcall.before, "id")]_vars

\* C15: record add(key, value) is insert-once. On a key already present
\* (name and updates included) it raises the duplicate-key error and leaves
\* the record as it was; on an absent key it stores value under key and
\* changes no other entry.
C15_AddInsertsOnce ==
    mcall.op = "add" =>
        IF mcall.key \in DOMAIN mcall.before.md
        THEN /\ mcall.outcome = "raised"
             /\ mcall.error = "ValueError"
             /\ records[mcall.ref] = mcall.before
        ELSE /\ mcall.outcome = "returned"
             /\ DOMAIN records[mcall.ref].md = DOMAIN mcall.before.md \cup {mcall.key}
             /\ records[mcall.ref].md[mcall.key] = mcall.value
             /\ \A k \in DOMAIN mcall.before.md :
                    records[mcall.ref].md[k] = mcall.before.md[k]

\* add(key, value) followed by add(key, other value): the second call raised
\* and the first value is still there
C15_Witness ==
    /\ mcall.op = "add"
    /\ mcall.key = "note"
    /\ mcall.outcome = "raised"
    /\ ValueOf(mcall.before, "note") # NoneV
    /\ ValueOf(mcall.before, "note") # mcall.value
    /\ ValueOf(records[mcall.ref], "note") = ValueOf(mcall.before, "note")

\* C16: record change(key, value) on a key that is not present raises the
\* missing-key error and creates no entry, and the record, every other record
\* and the composite are left as they were; on a present key it replaces that
\* key's value and nothing else.
C16_ChangeNeedsKey ==
    [][(mcall'.op = "change" /\ ncalls' = ncalls + 1)
          => /\ \A other \in Refs \ {mcall'.ref} : records'[other] = records[other]
             /\ composite' = composite
             /\ IF mcall'.key \notin DOMAIN records[mcall'.ref].md
                THEN /\ mcall'.outcome = "raised"
                     /\ mcall'.error = "KeyError"
                     /\ records'[mcall'.ref] = records[mcall'.ref]
                ELSE /\ mcall'.outcome = "returned"
                     /\ records'[mcall'.ref] =
                            [records[mcall'.ref] EXCEPT !.md[mcall'.key] = mcall'.value]]_vars

\* change on a key never added has raised, while a second record exists
C16_Witness ==
    /\ mcall.op = "change"
    /\ mcall.key = "note"
    /\ mcall.error = "KeyError"
    /\ "note" \notin DOMAIN records[mcall.ref].md
    /\ \E other \in Refs \ {mcall.ref} : records[other] # NoRecord

\* C17: record remove(key) on an absent key reports the problem, does not
\* raise and leaves the record as it was; on a present key it deletes exactly
\* that entry.
C17_RemoveReports ==
    mcall.op = "remove" =>
        /\ mcall.outcome = "returned"
        /\ IF mcall.key \notin DOMAIN mcall.before.md
           THEN /\ mcall.printed
                /\ records[mcall.ref] = mcall.before
           ELSE /\ DOMAIN records[mcall.ref].md = DOMAIN mcall.before.md \ {mcall.key}
                /\ \A k \in DOMAIN records[mcall.ref].md :
                       records[mcall.ref].md[k] = mcall.before.md[k]

\* remove of a key the record does not hold has been reported
C17_Witness ==
    /\ mcall.op = "remove"
    /\ mcall.key \notin DOMAIN mcall.before.md
    /\ mcall.printed
    /\ records[mcall.ref] # NoRecord

\* C18: in every sequence of record operations (update, add, change, remove,
\* get) a record's updates counter never decreases, so a record that has left
\* updates = 0 never returns to it, and each update() call raises the counter
\* by exactly one.
C18_UpdatesMonotone ==
    [][\A ref \in Refs :
          /\ (records[ref] # NoRecord /\ ValueOf(records[ref], "updates").type = "int")
                => /\ ValueOf(records'[ref], "updates").type = "int"
                   /\ ValueOf(records'[ref], "updates").n >= ValueOf(records[ref], "updates").n
          /\ (/\ mcall'.op = "update"
              /\ mcall'.ref = ref
              /\ ncalls' = ncalls + 1
              /\ ValueOf(records[ref], "updates").type = "int")
                => ValueOf(records'[ref], "updates")
                       = IntV(ValueOf(records[ref], "updates").n + 1)]_vars

\* C19: the id of an administrative record is assigned once, by the
\* constructor, and has that same value in every state reached by any
\* sequence of update, add, change and remove calls on the record.
C19_AdminIdFixed ==
    [][\A ref \in Refs :
          /\ (mcall'.op = "MetadataAdmin" /\ mcall'.ref = ref /\ ncalls' = ncalls + 1)
                => /\ records'[ref].class = "MetadataAdmin"
                   /\ ValueOf(records'[ref], "id") # NoneV
          /\ records[ref].class = "MetadataAdmin"
                => ValueOf(records'[ref], "id") = ValueOf(records[ref], "id")]_vars

\* C20: every metadata record contains the keys name and updates in every
\* reachable state: no sequence of add, change, remove and update calls
\* yields a record that lacks either key.
C20_NameAndUpdatesAlwaysPresent ==
    \A ref \in Refs :
        records[ref] # NoRecord => {"name", "updates"} \subseteq DOMAIN records[ref].md

\* ------------------------------------------------------------ File claims
\* the step is a call of op on the File
FileStep(op) == fcall'.op = op /\ ncalls' = ncalls + 1

\* C21: a File is unlocked at construction and is locked exactly when its most
\* recent lock()/unlock() call was lock().  While it is locked, move and
\* rename return None and leave the disk and the handle's path, directory,
\* filename and extension as they were, and write performs no I/O; after
\* unlock() the same calls take effect again.
C21_LockGuardsMutations ==
    [][/\ FileStep("File") => ~fobj'.locked
       /\ FileStep("lock") => fobj'.locked
       /\ FileStep("unlock") => (fcall'.outcome = "returned" /\ ~fobj'.locked)
       /\ (ncalls' = ncalls + 1 /\ fcall'.op \notin {"File", "lock", "unlock"})
            => fobj'.locked = fobj.locked
       /\ ((FileStep("move") \/ FileStep("rename") \/ FileStep("write")) /\ fobj.locked)
            => /\ fcall'.outcome = "returned"
               /\ fcall'.result = NoneV
               /\ fobj' = fobj
               /\ files' = files
               /\ dirs' = dirs
       /\ ((FileStep("move") \/ FileStep("rename")) /\ ~fobj.locked
              /\ fcall'.outcome = "returned")
            => /\ fcall'.result # NoneV
               /\ fobj'.path = fcall'.result.path
               /\ fobj'.path \in DOMAIN files']_vars

\* C22: in every state reached by lock, unlock, move, rename, copy, read and
\* write calls on a File, its directory, filename and extension are the
\* directory part, base name and final suffix of its current path; after a
\* successful move the path is the destination the move returned.
C22_HandleDerivedFromPath ==
    fobj # NoFile =>
        /\ fobj.directory = dirname(fobj.path)
        /\ fobj.filename = basename(fobj.path)
        /\ fobj.fileext = splitext(fobj.path)[2]
        /\ (fcall.op = "move" /\ fcall.outcome = "returned" /\ fcall.result # NoneV)
              => fobj.path = fcall.result.path

\* a move to another directory has succeeded
C22_Witness ==
    /\ fcall.op = "move"
    /\ fcall.outcome = "returned"
    /\ fcall.result # NoneV
    /\ fobj.path = fcall.arg.path
    /\ fobj.directory # fcall.before.directory
    /\ fobj.path \in DOMAIN files

\* name without its final suffix, followed by the suffix ext
Renamed_filename(name, ext) == StrCat(splitext(name)[1], ext)

\* C23: rename(name) on an unlocked File whose file is on disk changes the
\* base name but never the extension or the directory: afterwards the
\* extension is what it was before, and the filename is name with any final
\* suffix of its own removed, followed by the original extension.
C23_RenameKeepsExtension ==
    (fcall.op = "rename" /\ ~fcall.before.locked /\ fcall.error # "FileNotFoundError")
        => /\ fcall.outcome = "returned"
           /\ fobj.fileext = fcall.before.fileext
           /\ fobj.directory = fcall.before.directory
           /\ fobj.filename = Renamed_filename(fcall.arg.name, fcall.before.fileext)


LogOf(rec) == ValueOf(rec, "log")

\* C27: a process record's log starts with exactly one entry; update(event)
\* with a non-empty event returns and appends exactly one entry to the end
\* of the log, the earlier entries unchanged and in order; update(None)
\* returns and leaves the log unchanged.
C27_UpdateAppendsOneLogEntry ==
    /\ (mcall.op = "MetadataProcess" /\ mcall.outcome = "returned")
          => (LogOf(records[mcall.ref]).type = "list"
              /\ Len(LogOf(records[mcall.ref]).items) = 1)
    /\ (mcall.op = "update" /\ mcall.before.class = "MetadataProcess")
          => /\ mcall.outcome = "returned"
             /\ LogOf(records[mcall.ref]).type = "list"
             /\ (mcall.value.type = "str" /\ mcall.value.text # "")
                   => /\ Len(LogOf(records[mcall.ref]).items)
                            = Len(LogOf(mcall.before).items) + 1
                      /\ Front(LogOf(records[mcall.ref]).items) = LogOf(mcall.before).items
             /\ mcall.value = NoneV => LogOf(records[mcall.ref]) = LogOf(mcall.before)


\* ----------------------------------------- claims on factories (SpecMeta)
\* the references the metadata property has handed over so far
Handed == Range(handed)

CategoryKeys ==
    {str_lower(Administrative), str_lower(Descriptive), str_lower(Technical),
     str_lower(Process)}

\* the key under which the most recent Metadata.add stored its record
AddedKey == str_lower(mcall.before.metadata_type)

Written(content) == IF content.type = "str" THEN content.text ELSE Concat(content.items)
RECURSIVE SumLen(_)
SumLen(items) == IF items = <<>> THEN 0 ELSE Len(Head(items)) + SumLen(Tail(items))
FirstN(text, n) == SubSeq(text, 1, IF n < Len(text) THEN n ELSE Len(text))

\* a read of the path that the call before it has just written
ReadsBack ==
    /\ call.op = "write"
    /\ call.outcome = "returned"
    /\ call'.op = "read"
    /\ ncalls' = ncalls + 1
    /\ call.result = PathV(call'.path)

\* what the read returns when it returns the written text as it was given
ReturnsWritten ==
    /\ call'.outcome = "returned"
    /\ call'.arg = NoneV => call'.result = StrV(Written(call.arg))
    /\ (call'.arg = NoneV /\ call.arg.type = "list")
          => Len(call'.result.text) = SumLen(call.arg.items)
    /\ call'.arg # NoneV => call'.result = StrV(FirstN(Written(call.arg), call'.arg.n))

====
